---- MODULE Spec2Model ----
(***************************************************************************)
(* Model of the AniTrakt database parser (src/main.py): the slug           *)
(* generator, the row extractor, the ignore-rule evaluator, the overwrite   *)
(* merger and the orchestrator that runs the two media kinds.               *)
(*                                                                          *)
(* Python strings are sequences of one-character strings; Optional[str] is  *)
(* None (NoneVal) or Some(s).                                               *)
(***************************************************************************)
EXTENDS Integers, Sequences, FiniteSets, TLC

VARIABLES
    \* --- TextUtils.slugify applied to one title (SpecSlug)
    slugPc, slugTitle, slugResult, char_maps,
    \* --- FilterEngine.filter_items applied to one list (SpecFilter)
    fltPc, fltData, fltRules, fltSource, fltResult,
    \* --- DataManager.apply_overwrites applied once and twice (SpecMerge)
    mrgPc, mrgCandidates, mrgOverwrite, mrgOnce, mrgTwice,
    \* --- AniTraktParser.run (Spec)
    pc, media_type, page, ignoreFile, overwriteFile, row_errors,
    data, overwritten_items, remote_items, final_data, serialized_data, written, exitCode

slugVars == <<slugPc, slugTitle, slugResult, char_maps>>
fltVars  == <<fltPc, fltData, fltRules, fltSource, fltResult>>
mrgVars  == <<mrgPc, mrgCandidates, mrgOverwrite, mrgOnce, mrgTwice>>
runVars  == <<pc, media_type, page, ignoreFile, overwriteFile, row_errors,
              data, overwritten_items, remote_items, final_data, serialized_data,
              written, exitCode>>
vars     == <<slugVars, fltVars, mrgVars, runVars>>

----------------------------------------------------------------------------
\* Bounds of the model.
MaxTitleLen == 4    \* longest title handed to slugify
MaxItems    == 2    \* longest record list handed to filter_items / apply_overwrites
MaxRules    == 2    \* longest ignore-rule list
MaxRows     == 2    \* most rows of a fetched table

----------------------------------------------------------------------------
\* Optional values.
NoneVal == [isNone |-> TRUE]
Some(v) == [isNone |-> FALSE, val |-> v]

Range(s) == {s[i] : i \in DOMAIN s}

SeqsUpTo(S, n) == UNION {[1..k -> S] : k \in 0..n}

----------------------------------------------------------------------------
\* Characters and Python's str operations on them.
Letters    == {"a", "b", "A", "B"}
Digits     == {"0", "1", "2", "3"}
Whitespace == {" ", "\n"}
Mapped     == {"é"}

\* str.lower() on one character
LowerChar(c) == IF c = "A" THEN "a" ELSE IF c = "B" THEN "b" ELSE c

\* str.lower()
Lower(s) == [i \in DOMAIN s |-> LowerChar(s[i])]

\* code point of a character (str comparison is by code point)
Ord(c) ==
    CASE c = "\n" -> 10  [] c = " " -> 32  [] c = "!" -> 33  [] c = "-" -> 45
      [] c = "0"  -> 48  [] c = "1" -> 49  [] c = "2" -> 50  [] c = "3" -> 51
      [] c = "A" -> 65  [] c = "B" -> 66  [] c = "_" -> 95
      [] c = "a"  -> 97  [] c = "b" -> 98  [] c = "e" -> 101 [] c = "s" -> 115
      [] c = "t"  -> 116 [] c = "x" -> 120 [] c = "y" -> 121 [] c = "é" -> 233

\* s < t for Python strings
RECURSIVE StrLess(_, _)
StrLess(s, t) ==
    IF t = <<>> THEN FALSE
    ELSE IF s = <<>> THEN TRUE
    ELSE IF Ord(Head(s)) < Ord(Head(t)) THEN TRUE
    ELSE IF Ord(Head(s)) > Ord(Head(t)) THEN FALSE
    ELSE StrLess(Tail(s), Tail(t))

\* str.strip(): leading and trailing whitespace removed
RECURSIVE LStrip(_)
LStrip(s) == IF s # <<>> /\ Head(s) \in Whitespace THEN LStrip(Tail(s)) ELSE s

RECURSIVE RStrip(_)
RStrip(s) ==
    IF s # <<>> /\ s[Len(s)] \in Whitespace THEN RStrip(SubSeq(s, 1, Len(s) - 1)) ELSE s

Strip(s) == RStrip(LStrip(s))

----------------------------------------------------------------------------
\* extras.langmap.char_maps (a dict: character -> replacement string) is the
\* variable char_maps; the tables it may hold:
CharMapChoices ==
    {[c \in Mapped |-> r] : r \in {<<"e">>, <<"s", "s">>, <<>>, <<"-">>, <<" ">>, <<"e", "!">>}}

DefaultCharMap == [c \in Mapped |-> <<"e">>]

\* for char, replacement in char_maps.items(): lower = lower.replace(char, replacement)
RECURSIVE ReplaceChars(_)
ReplaceChars(s) ==
    IF s = <<>> THEN <<>>
    ELSE (IF Head(s) \in DOMAIN char_maps THEN char_maps[Head(s)] ELSE <<Head(s)>>)
         \o ReplaceChars(Tail(s))

\* \w of a Python str pattern
IsWord(c) == c \in Letters \cup Digits \cup {"_", "e", "s", "t", "x", "y", "é"}

\* re.sub(r"[^\w\s]", "-", lower)
ToAlpha(s) == [i \in DOMAIN s |-> IF IsWord(s[i]) \/ s[i] \in Whitespace THEN s[i] ELSE "-"]

IsSep(c) == c \in Whitespace \cup {"_", "-"}

CollapseEach(s) == [i \in DOMAIN s |-> IF IsSep(s[i]) THEN "-" ELSE s[i]]

\* re.sub(r"[\s_\-]+", "-", alpha): every maximal run becomes one dash
RECURSIVE CollapseRuns(_)
CollapseRuns(s) ==
    IF s = <<>> THEN <<>>
    ELSE IF IsSep(Head(s))
         THEN IF Len(s) > 1 /\ IsSep(s[2])
              THEN CollapseRuns(Tail(s))
              ELSE <<"-">> \o CollapseRuns(Tail(s))
         ELSE <<Head(s)>> \o CollapseRuns(Tail(s))

RECURSIVE LStripDash(_)
LStripDash(s) == IF s # <<>> /\ Head(s) = "-" THEN LStripDash(Tail(s)) ELSE s

RECURSIVE RStripDash(_)
RStripDash(s) ==
    IF s # <<>> /\ s[Len(s)] = "-" THEN RStripDash(SubSeq(s, 1, Len(s) - 1)) ELSE s

\* re.sub(r"^-+|-+$", "", dash); $ also matches before a final newline
StripDashes(s) ==
    LET l == LStripDash(s)
    IN  IF l # <<>> /\ l[Len(l)] = "\n"
        THEN RStripDash(SubSeq(l, 1, Len(l) - 1)) \o <<"\n">>
        ELSE RStripDash(l)

\* re.match(r"^\d+$", title)
IsNumeric(title) ==
    LET body == IF title # <<>> /\ title[Len(title)] = "\n"
                THEN SubSeq(title, 1, Len(title) - 1) ELSE title
    IN  body # <<>> /\ \A i \in DOMAIN body : body[i] \in Digits

\* TextUtils.slugify
slugify(title) ==
    IF title = <<>> \/ IsNumeric(title) THEN NoneVal
    ELSE Some(StripDashes(CollapseRuns(ToAlpha(ReplaceChars(Strip(Lower(title)))))))

----------------------------------------------------------------------------
\* Results of calls that may raise.
Ok(v)    == [err |-> "none", val |-> v]
Raise(e) == [err |-> e]

\* BaseMedia.__post_init__
BaseMediaValid(title, mal_id, trakt_id) ==
    /\ title # <<>>
    /\ ~(mal_id < 1)
    /\ ~(trakt_id < 1)

\* Movie(title, mal_id, trakt_id, guessed_slug)
Movie(title, mal_id, trakt_id, guessed_slug) ==
    IF BaseMediaValid(title, mal_id, trakt_id)
    THEN Ok([title |-> title, mal_id |-> mal_id, trakt_id |-> trakt_id,
             guessed_slug |-> guessed_slug, type |-> "movies"])
    ELSE Raise("ValueError_post_init")

\* Show(title, mal_id, trakt_id, guessed_slug, season)
Show(title, mal_id, trakt_id, guessed_slug, season) ==
    IF BaseMediaValid(title, mal_id, trakt_id) /\ ~(season < 1)
    THEN Ok([title |-> title, mal_id |-> mal_id, trakt_id |-> trakt_id,
             guessed_slug |-> guessed_slug, season |-> season, type |-> "shows"])
    ELSE Raise("ValueError_post_init")

----------------------------------------------------------------------------
\* Files of the db directory: [state |-> "missing"], [state |-> "invalid"] (not
\* JSON) or [state |-> "ok", content |-> the decoded list].

\* FileManager.read_json
read_json(file) ==
    IF file.state = "missing" THEN Ok(<<>>)
    ELSE IF file.state = "invalid" THEN Raise("FileOperationError")
    ELSE Ok(file.content)

\* FileManager.load_ignore_rules
load_ignore_rules(file) == read_json(file)

\* Movie(**item) / Show(**item)
Construct(item, kind) ==
    IF kind = "movies"
    THEN Movie(item.title, item.mal_id, item.trakt_id, item.guessed_slug)
    ELSE Show(item.title, item.mal_id, item.trakt_id, item.guessed_slug, item.season)

\* [Movie(**item) for item in data]: the first failing construction raises
RECURSIVE ConstructAll(_, _)
ConstructAll(items, kind) ==
    IF items = <<>> THEN Ok(<<>>)
    ELSE LET first == Construct(Head(items), kind)
         IN  IF first.err # "none" THEN first
             ELSE LET rest == ConstructAll(Tail(items), kind)
                  IN  IF rest.err # "none" THEN rest
                      ELSE Ok(<<first.val>> \o rest.val)

\* FileManager.load_overwrite_data
load_overwrite_data(file, kind) ==
    LET json == read_json(file)
    IN  IF json.err # "none" THEN json ELSE ConstructAll(json.val, kind)

----------------------------------------------------------------------------
\* FilterEngine.  A rule is [source, type, conditions]; a condition is a
\* function from field names to expected values, NoneVal standing for null.

\* getattr(item, key, None)
GetAttr(item, key) ==
    IF key \notin DOMAIN item THEN NoneVal
    ELSE IF key = "guessed_slug" THEN item[key]
    ELSE Some(item[key])

\* one iteration of the loop of _condition_matches: FALSE is "return False"
KeyMatches(item, key, value) ==
    LET item_value == GetAttr(item, key)
    IN  IF value.isNone /\ ~item_value.isNone THEN FALSE
        ELSE IF ~value.isNone /\ item_value.isNone THEN FALSE
        ELSE IF value.isNone /\ item_value.isNone THEN TRUE
        ELSE ~(item_value.val # value.val)

\* FilterEngine._condition_matches
condition_matches(item, condition) ==
    \A key \in DOMAIN condition : KeyMatches(item, key, condition[key])

AllMatch(item, conditions) ==
    \A i \in DOMAIN conditions : condition_matches(item, conditions[i])

AnyMatch(item, conditions) ==
    \E i \in DOMAIN conditions : condition_matches(item, conditions[i])

RuleHitsNoEmptyCheck(item, rule) ==
    IF rule.type \in {"ALL", "AND"} THEN AllMatch(item, rule.conditions)
    ELSE IF rule.type \in {"ANY", "OR"} THEN AnyMatch(item, rule.conditions)
    ELSE FALSE

\* the body of the loop of _should_ignore_item past the source check:
\* TRUE is "return True"
RuleHits(item, rule) ==
    IF rule.type \in {"ALL", "AND"}
    THEN rule.conditions # <<>> /\ AllMatch(item, rule.conditions)
    ELSE IF rule.type \in {"ANY", "OR"} THEN AnyMatch(item, rule.conditions)
    ELSE FALSE

\* FilterEngine._should_ignore_item
RECURSIVE should_ignore_item(_, _, _)
should_ignore_item(item, ignore_rules, source) ==
    IF ignore_rules = <<>> THEN FALSE
    ELSE LET rule == Head(ignore_rules)
         IN  IF rule.source \notin {"all", source}
             THEN should_ignore_item(item, Tail(ignore_rules), source)
             ELSE IF RuleHits(item, rule) THEN TRUE
             ELSE should_ignore_item(item, Tail(ignore_rules), source)

\* [item for item in data if not self._should_ignore_item(item, ignore_rules, source)]
RECURSIVE KeepItems(_, _, _)
KeepItems(items, ignore_rules, source) ==
    IF items = <<>> THEN <<>>
    ELSE (IF should_ignore_item(Head(items), ignore_rules, source)
          THEN <<>> ELSE <<Head(items)>>)
         \o KeepItems(Tail(items), ignore_rules, source)

\* FilterEngine.filter_items
filter_items(items, file, source) ==
    LET ignore_rules == load_ignore_rules(file)
    IN  IF ignore_rules.err # "none" THEN ignore_rules
        ELSE IF ignore_rules.val = <<>> THEN Ok(items)
        ELSE Ok(KeepItems(items, ignore_rules.val, source))

----------------------------------------------------------------------------
\* DataManager.

MalIds(items) == {items[i].mal_id : i \in DOMAIN items}

\* index of the first item of items with this mal_id (the loop of lines 303-307)
FirstIndex(items, mal_id) ==
    CHOOSE i \in DOMAIN items :
        /\ items[i].mal_id = mal_id
        /\ \A j \in 1..(i - 1) : items[j].mal_id # mal_id

\* lines 303-307: the first item with the mal_id is replaced, then break
ReplaceFirst(items, overwrite_item) ==
    IF overwrite_item.mal_id \in MalIds(items)
    THEN [items EXCEPT ![FirstIndex(items, overwrite_item.mal_id)] = overwrite_item]
    ELSE items

RECURSIVE OverwriteLoopPrepend(_, _, _)
OverwriteLoopPrepend(items, overwrite_items, existing_mal_ids) ==
    IF overwrite_items = <<>> THEN items
    ELSE LET overwrite_item == Head(overwrite_items)
         IN  IF overwrite_item.mal_id \notin existing_mal_ids
             THEN OverwriteLoopPrepend(<<overwrite_item>> \o items, Tail(overwrite_items),
                                       existing_mal_ids)
             ELSE OverwriteLoopPrepend(ReplaceFirst(items, overwrite_item),
                                       Tail(overwrite_items), existing_mal_ids)

RECURSIVE OverwriteLoopNoAppend(_, _, _)
OverwriteLoopNoAppend(items, overwrite_items, existing_mal_ids) ==
    IF overwrite_items = <<>> THEN items
    ELSE LET overwrite_item == Head(overwrite_items)
         IN  IF overwrite_item.mal_id \notin existing_mal_ids
             THEN OverwriteLoopNoAppend(items, Tail(overwrite_items), existing_mal_ids)
             ELSE OverwriteLoopNoAppend(ReplaceFirst(items, overwrite_item),
                                        Tail(overwrite_items), existing_mal_ids)

\* the loop of lines 296-307; existing_mal_ids is computed once, before it
RECURSIVE OverwriteLoop(_, _, _)
OverwriteLoop(items, overwrite_items, existing_mal_ids) ==
    IF overwrite_items = <<>> THEN items
    ELSE LET overwrite_item == Head(overwrite_items)
         IN  IF overwrite_item.mal_id \notin existing_mal_ids
             THEN OverwriteLoop(Append(items, overwrite_item), Tail(overwrite_items),
                                existing_mal_ids)
             ELSE OverwriteLoop(ReplaceFirst(items, overwrite_item), Tail(overwrite_items),
                                existing_mal_ids)

\* DataManager.apply_overwrites
apply_overwrites(items, file, kind) ==
    LET overwrite_items == load_overwrite_data(file, kind)
    IN  IF overwrite_items.err # "none" THEN overwrite_items
        ELSE IF overwrite_items.val = <<>> THEN Ok(items)
        ELSE Ok(OverwriteLoop(items, overwrite_items.val, MalIds(items)))

----------------------------------------------------------------------------
\* HTMLParser.  A link is [href, text], href being the "/"-separated segments
\* of the target; a cell without an <a> holds NoneVal.

Last(s) == s[Len(s)]

DigitVal(c) == CASE c = "0" -> 0 [] c = "1" -> 1 [] c = "2" -> 2 [] c = "3" -> 3

RECURSIVE DigitsVal(_, _)
DigitsVal(s, acc) ==
    IF s = <<>> THEN acc ELSE DigitsVal(Tail(s), 10 * acc + DigitVal(Head(s)))

\* int(s) for a string of the characters used in hrefs and season tokens
ParseInt(s) ==
    IF s # <<>> /\ \A i \in DOMAIN s : s[i] \in Digits
    THEN Ok(DigitsVal(s, 0))
    ELSE Raise("ValueError_int")

\* a or b, for strings
OrElse(a, b) == IF a # <<>> THEN a ELSE b

\* HTMLParser._parse_movie_row
parse_movie_row(row) ==
    IF row.cells < 2 THEN Raise("ParseError")
    ELSE IF row.trakt.isNone \/ row.mal.isNone THEN Raise("ParseError")
    ELSE LET trakt_link == row.trakt.val
             mal_link   == row.mal.val
             trakt_id   == ParseInt(Last(trakt_link.href))
             mal_id     == ParseInt(Last(mal_link.href))
         IN  IF trakt_id.err # "none" THEN trakt_id
             ELSE IF mal_id.err # "none" THEN mal_id
             ELSE Movie(OrElse(mal_link.text, trakt_link.text), mal_id.val,
                        trakt_id.val, slugify(trakt_link.text))

\* season_soup.get_text().split()[0]: the text before the link, else the link text
FirstToken(season) ==
    IF season.lead # <<>> THEN Ok(season.lead)
    ELSE IF season.mal.val.text # <<>> THEN Ok(season.mal.val.text)
    ELSE Raise("IndexError")

\* one iteration of the loop of _parse_show_row (lines 376-393): the records it
\* appends (none on "continue"), or the exception it raises
parse_season(season, trakt_id, trakt_text) ==
    IF season.mal.isNone THEN Ok(<<>>)
    ELSE LET mal_link == season.mal.val
             mal_id   == ParseInt(Last(mal_link.href))
             token    == FirstToken(season)
         IN  IF mal_id.err # "none" THEN mal_id
             ELSE IF token.err # "none" THEN token
             ELSE LET season_number == ParseInt(Tail(token.val))
                  IN  IF season_number.err # "none" THEN season_number
                      ELSE LET show == Show(OrElse(mal_link.text, trakt_text), mal_id.val,
                                            trakt_id, slugify(trakt_text), season_number.val)
                           IN  IF show.err # "none" THEN show ELSE Ok(<<show.val>>)

\* the loop of lines 375-393: an exception in one iteration leaves the function
RECURSIVE SeasonsLoop(_, _, _, _)
SeasonsLoop(seasons, trakt_id, trakt_text, shows) ==
    IF seasons = <<>> THEN Ok(shows)
    ELSE LET one == parse_season(Head(seasons), trakt_id, trakt_text)
         IN  IF one.err # "none" THEN one
             ELSE SeasonsLoop(Tail(seasons), trakt_id, trakt_text, shows \o one.val)

\* HTMLParser._parse_show_row
parse_show_row(row) ==
    IF row.cells < 2 THEN Raise("ParseError")
    ELSE IF row.trakt.isNone THEN Raise("ParseError")
    ELSE LET trakt_link == row.trakt.val
             trakt_id   == ParseInt(Last(trakt_link.href))
         IN  IF trakt_id.err # "none" THEN trakt_id
             ELSE SeasonsLoop(row.seasons, trakt_id.val, trakt_link.text, <<>>)

\* the loop of lines 409-422: every exception of a row is caught and logged
RECURSIVE RowsLoop(_, _, _, _)
RowsLoop(rows, kind, items, errors) ==
    IF rows = <<>> THEN Ok([data |-> items, errors |-> errors])
    ELSE IF kind = "movies"
    THEN LET movie == parse_movie_row(Head(rows))
         IN  IF movie.err # "none"
             THEN RowsLoop(Tail(rows), kind, items, Append(errors, movie.err))
             ELSE RowsLoop(Tail(rows), kind, Append(items, movie.val), errors)
    ELSE LET shows == parse_show_row(Head(rows))
         IN  IF shows.err # "none"
             THEN RowsLoop(Tail(rows), kind, items, Append(errors, shows.err))
             ELSE RowsLoop(Tail(rows), kind, items \o shows.val, errors)

\* HTMLParser.parse_media (the copy of the page written by write_html is read
\* by nothing and is left out)
parse_media(html, kind) ==
    IF html.fetch # "ok" THEN Raise("NetworkError")
    ELSE IF ~html.tbody THEN Raise("ParseError")
    ELSE RowsLoop(html.rows, kind, <<>>, <<>>)

----------------------------------------------------------------------------
\* FileManager.save_media_data

SortKey(item) == Lower(item.title)

RECURSIVE InsertSortedBeforeEqual(_, _)
InsertSortedBeforeEqual(sorted, item) ==
    IF sorted = <<>> THEN <<item>>
    ELSE IF ~StrLess(SortKey(Head(sorted)), SortKey(item)) THEN <<item>> \o sorted
    ELSE <<Head(sorted)>> \o InsertSortedBeforeEqual(Tail(sorted), item)

\* where sorted() puts an item among those before it: after every item whose
\* key is not greater (the sort is stable)
RECURSIVE InsertSorted(_, _)
InsertSorted(sorted, item) ==
    IF sorted = <<>> THEN <<item>>
    ELSE IF StrLess(SortKey(item), SortKey(Head(sorted))) THEN <<item>> \o sorted
    ELSE <<Head(sorted)>> \o InsertSorted(Tail(sorted), item)

\* sorted(data, key=lambda x: x.title.lower())
RECURSIVE SortedByTitle(_, _)
SortedByTitle(items, sorted) ==
    IF items = <<>> THEN sorted
    ELSE SortedByTitle(Tail(items), InsertSorted(sorted, Head(items)))

\* [asdict(item) for item in sorted_data]: a dict with the fields of the record
Serialize(items) == [i \in DOMAIN items |-> [f \in DOMAIN items[i] |-> items[i][f]]]

----------------------------------------------------------------------------
\* Records and rules the specifications draw their inputs from.
Sources == {"remote", "all", "local"}
Kinds   == {"movies", "shows"}

MovieRec(title, mal_id, trakt_id, guessed_slug) ==
    [title |-> title, mal_id |-> mal_id, trakt_id |-> trakt_id,
     guessed_slug |-> guessed_slug, type |-> "movies"]

ShowRec(title, mal_id, trakt_id, guessed_slug, season) ==
    [title |-> title, mal_id |-> mal_id, trakt_id |-> trakt_id,
     guessed_slug |-> guessed_slug, season |-> season, type |-> "shows"]

MissingFile   == [state |-> "missing"]
InvalidFile   == [state |-> "invalid"]
JsonFile(content) == [state |-> "ok", content |-> content]

Rule(source, type, conditions) ==
    [source |-> source, type |-> type, conditions |-> conditions]

EmptyCondition == [key \in {} |-> NoneVal]

RuleChoices ==
    { Rule("remote", "OR",  << [title |-> Some(<<"a">>)] >>),
      Rule("local",  "AND", << >>),
      Rule("all",    "ANY", << >>),
      Rule("all",    "ALL", << [mal_id |-> Some(1)], [title |-> Some(<<"a">>)] >>),
      Rule("local",  "OR",  << [mal_id |-> Some(2)], [title |-> Some(<<"a">>)] >>),
      Rule("all",    "AND", << EmptyCondition >>),
      Rule("remote", "AND", << [season |-> NoneVal] >>),
      Rule("all",    "OR",  << [guessed_slug |-> NoneVal, mal_id |-> Some(2)] >>),
      Rule("all",    "NOT", << [title |-> Some(<<"a">>)] >>) }

FilterRecords(kind) ==
    IF kind = "movies"
    THEN { MovieRec(<<"a">>, 1, 1, Some(<<"t">>)),
           MovieRec(<<"b">>, 2, 1, Some(<<"t">>)),
           MovieRec(<<"a">>, 2, 2, NoneVal) }
    ELSE { ShowRec(<<"a">>, 1, 1, Some(<<"t">>), 1),
           ShowRec(<<"b">>, 2, 1, Some(<<"t">>), 2),
           ShowRec(<<"a">>, 2, 2, NoneVal, 1) }

MergeCandidates ==
    { MovieRec(<<"a">>, 1, 1, Some(<<"t">>)),
      MovieRec(<<"b">>, 1, 2, Some(<<"t">>)),
      MovieRec(<<"a">>, 2, 1, Some(<<"t">>)),
      MovieRec(<<"b">>, 3, 3, NoneVal) }

MergeOverrides ==
    { MovieRec(<<"x">>, 1, 1, Some(<<"x">>)),
      MovieRec(<<"y">>, 1, 1, Some(<<"y">>)),
      MovieRec(<<"x">>, 2, 1, Some(<<"x">>)),
      MovieRec(<<"a">>, 2, 1, Some(<<"t">>)),
      MovieRec(<<"y">>, 4, 4, NoneVal) }

Link(segment, text) == Some([href |-> <<<<"d", "b">>, segment>>, text |-> text])

MovieRow(trakt, mal) == [cells |-> 2, trakt |-> trakt, mal |-> mal]

MovieRows ==
    { MovieRow(Link(<<"1">>, <<"t">>), Link(<<"1">>, <<"a">>)),
      MovieRow(Link(<<"2">>, <<"t">>), Link(<<"1">>, <<"A">>)),
      MovieRow(Link(<<"3">>, <<"1">>), Link(<<"2">>, <<"b">>)),
      MovieRow(Link(<<"1">>, <<"t">>), Link(<<"0">>, <<"a">>)),
      MovieRow(Link(<<"1">>, <<"t">>), Link(<<"x">>, <<"a">>)),
      MovieRow(Link(<<"1">>, <<"t">>), NoneVal) }

Season(lead, mal) == [lead |-> lead, mal |-> mal]

ShowRow(trakt, seasons) == [cells |-> 2, trakt |-> trakt, seasons |-> seasons]

ShowRows ==
    { ShowRow(Link(<<"1">>, <<"t">>),
              << Season(<<"S", "1">>, Link(<<"1">>, <<"a">>)) >>),
      ShowRow(Link(<<"2">>, <<"t">>),
              << Season(<<"S", "1">>, Link(<<"1">>, <<"A">>)),
                 Season(<<"S", "2">>, Link(<<"2">>, <<"b">>)) >>),
      ShowRow(Link(<<"3">>, <<"1">>),
              << Season(<<"S", "1">>, Link(<<"2">>, <<"b">>)),
                 Season(<<"S", "x">>, Link(<<"3">>, <<"a">>)) >>),
      ShowRow(Link(<<"1">>, <<"t">>),
              << Season(<<"S", "0">>, Link(<<"2">>, <<"b">>)),
                 Season(<<"S", "1">>, Link(<<"3">>, <<"a">>)) >>),
      ShowRow(Link(<<"1">>, <<"t">>),
              << Season(<<"S", "1">>, NoneVal),
                 Season(<<>>, Link(<<"x">>, <<"a">>)) >>),
      ShowRow(NoneVal, << Season(<<"S", "1">>, Link(<<"1">>, <<"a">>)) >>) }

Page(rows) == [fetch |-> "ok", tbody |-> TRUE, rows |-> rows]

PageChoices(kind) ==
    { [fetch |-> "error", tbody |-> FALSE, rows |-> <<>>],
      [fetch |-> "ok", tbody |-> FALSE, rows |-> <<>>] }
    \cup {Page(rows) :
            rows \in SeqsUpTo(IF kind = "movies" THEN MovieRows ELSE ShowRows, MaxRows)}

IgnoreFileChoices ==
    { MissingFile, InvalidFile,
      JsonFile(<< Rule("remote", "OR", << [title |-> Some(<<"a">>)] >>) >>),
      JsonFile(<< Rule("remote", "OR", << [mal_id |-> Some(1)] >>),
                  Rule("local", "OR", << [title |-> Some(<<"y">>)] >>) >>),
      JsonFile(<< Rule("all", "AND", << [mal_id |-> Some(2)] >>) >>),
      JsonFile(<< Rule("local", "AND", << EmptyCondition >>) >>),
      JsonFile(<< Rule("all", "OR", << [title |-> Some(<<"b">>)] >>),
                  Rule("remote", "AND", << >>) >>) }

\* an entry of an overwrite file: the dict of a record of the kind
Entry(kind, title, mal_id, trakt_id) ==
    IF kind = "movies" THEN MovieRec(title, mal_id, trakt_id, Some(<<"x">>))
    ELSE ShowRec(title, mal_id, trakt_id, Some(<<"x">>), 1)

OverwriteFileChoices(kind) ==
    { MissingFile, InvalidFile,
      JsonFile(<< Entry(kind, <<"x">>, 1, 3) >>),
      JsonFile(<< Entry(kind, <<"a">>, 3, 3) >>),
      JsonFile(<< Entry(kind, <<"x">>, 1, 3), Entry(kind, <<"y">>, 1, 3) >>),
      JsonFile(<< Entry(kind, <<"B">>, 2, 3), Entry(kind, <<"a">>, 3, 3) >>),
      JsonFile(<< Entry(kind, <<>>, 2, 3) >>),
      JsonFile(<< Entry(kind, <<"x">>, 1, 0) >>) }

----------------------------------------------------------------------------
\* SpecSlug: slugify applied to every title over SlugChars up to MaxTitleLen.
SlugChars == {"a", "A", "1", " ", "\n", "_", "-", "!", "é"}

SlugIdle ==
    /\ slugPc = "idle" /\ slugTitle = <<>> /\ slugResult = NoneVal
    /\ char_maps = DefaultCharMap

SlugCall ==
    /\ slugPc = "call"
    /\ slugResult' = slugify(slugTitle)
    /\ slugPc' = "returned"
    /\ UNCHANGED <<slugTitle, char_maps>>

----------------------------------------------------------------------------
\* SpecFilter: filter_items applied to a record list under an ignore file.
FltIdle ==
    /\ fltPc = "idle" /\ fltData = <<>> /\ fltRules = MissingFile
    /\ fltSource = "all" /\ fltResult = Ok(<<>>)

FilterCall ==
    /\ fltPc = "call"
    /\ fltResult' = filter_items(fltData, fltRules, fltSource)
    /\ fltPc' = "returned"
    /\ UNCHANGED <<fltData, fltRules, fltSource>>

----------------------------------------------------------------------------
\* SpecMerge: apply_overwrites applied to a candidate list, then to its result.
MrgIdle ==
    /\ mrgPc = "idle" /\ mrgCandidates = <<>> /\ mrgOverwrite = MissingFile
    /\ mrgOnce = <<>> /\ mrgTwice = <<>>

MergeOnce ==
    /\ mrgPc = "call"
    /\ mrgOnce' = apply_overwrites(mrgCandidates, mrgOverwrite, "movies").val
    /\ mrgPc' = "once"
    /\ UNCHANGED <<mrgCandidates, mrgOverwrite, mrgTwice>>

MergeTwice ==
    /\ mrgPc = "once"
    /\ mrgTwice' = apply_overwrites(mrgOnce, mrgOverwrite, "movies").val
    /\ mrgPc' = "twice"
    /\ UNCHANGED <<mrgCandidates, mrgOverwrite, mrgOnce>>

----------------------------------------------------------------------------
\* AniTraktParser.run, before main() has called it.
RunIdle ==
    /\ pc = "idle" /\ media_type = "none" /\ page = <<>>
    /\ ignoreFile = MissingFile /\ overwriteFile = MissingFile /\ row_errors = <<>>
    /\ data = <<>> /\ overwritten_items = <<>> /\ remote_items = <<>>
    /\ final_data = <<>> /\ serialized_data = <<>> /\ written = {} /\ exitCode = -1

\* the locals of _process_media_type and the files of the kind it works on
Frame == <<page, ignoreFile, overwriteFile, row_errors, data, overwritten_items,
           remote_items, final_data, serialized_data>>

NoFrame ==
    /\ page' = <<>> /\ ignoreFile' = MissingFile /\ overwriteFile' = MissingFile
    /\ row_errors' = <<>> /\ data' = <<>> /\ overwritten_items' = <<>>
    /\ remote_items' = <<>> /\ final_data' = <<>> /\ serialized_data' = <<>>

\* run, line 480-481: the next media type is taken and _process_media_type
\* entered; the remote page and the two files of that kind are what they are
EnterMediaType ==
    /\ pc = "loop"
    /\ media_type \in {"none", "movies"}
    /\ media_type' = IF media_type = "none" THEN "movies" ELSE "shows"
    /\ page' \in PageChoices(media_type')
    /\ ignoreFile' \in IgnoreFileChoices
    /\ overwriteFile' \in OverwriteFileChoices(media_type')
    /\ pc' = "parse"
    /\ UNCHANGED <<row_errors, data, overwritten_items, remote_items, final_data,
                   serialized_data, written, exitCode>>

\* line 443
ParseMedia ==
    /\ pc = "parse"
    /\ LET parsed == parse_media(page, media_type)
       IN  IF parsed.err # "none"
           THEN pc' = "raised" /\ UNCHANGED <<data, row_errors>>
           ELSE /\ data' = parsed.val.data
                /\ row_errors' = parsed.val.errors
                /\ pc' = "filter_remote"
    /\ UNCHANGED <<media_type, page, ignoreFile, overwriteFile, overwritten_items,
                   remote_items, final_data, serialized_data, written, exitCode>>

\* line 446
FilterRemote ==
    /\ pc = "filter_remote"
    /\ LET filtered == filter_items(data, ignoreFile, "remote")
       IN  IF filtered.err # "none"
           THEN pc' = "raised" /\ UNCHANGED data
           ELSE data' = filtered.val /\ pc' = "overwrite"
    /\ UNCHANGED <<media_type, page, ignoreFile, overwriteFile, row_errors,
                   overwritten_items, remote_items, final_data, serialized_data,
                   written, exitCode>>

\* line 449
ApplyOverwrites ==
    /\ pc = "overwrite"
    /\ LET merged == apply_overwrites(data, overwriteFile, media_type)
       IN  IF merged.err # "none"
           THEN pc' = "raised" /\ UNCHANGED data
           ELSE data' = merged.val /\ pc' = "partition"
    /\ UNCHANGED <<media_type, page, ignoreFile, overwriteFile, row_errors,
                   overwritten_items, remote_items, final_data, serialized_data,
                   written, exitCode>>

\* line 455
OverwrittenOf(items, overwrite_mal_ids) ==
    SelectSeq(items, LAMBDA item : item.mal_id \in overwrite_mal_ids)

\* line 456
RemoteOf(items, overwrite_mal_ids) ==
    SelectSeq(items, LAMBDA item : item.mal_id \notin overwrite_mal_ids)

\* lines 452-456
Partition ==
    /\ pc = "partition"
    /\ LET overwrite_items == load_overwrite_data(overwriteFile, media_type)
       IN  IF overwrite_items.err # "none"
           THEN pc' = "raised" /\ UNCHANGED <<overwritten_items, remote_items>>
           ELSE /\ overwritten_items' = OverwrittenOf(data, MalIds(overwrite_items.val))
                /\ remote_items' = RemoteOf(data, MalIds(overwrite_items.val))
                /\ pc' = "filter_all"
    /\ UNCHANGED <<media_type, page, ignoreFile, overwriteFile, row_errors, data,
                   final_data, serialized_data, written, exitCode>>

\* line 459
FilterAll ==
    /\ pc = "filter_all"
    /\ LET filtered == filter_items(remote_items, ignoreFile, "all")
       IN  IF filtered.err # "none"
           THEN pc' = "raised" /\ UNCHANGED remote_items
           ELSE remote_items' = filtered.val /\ pc' = "filter_local"
    /\ UNCHANGED <<media_type, page, ignoreFile, overwriteFile, row_errors, data,
                   overwritten_items, final_data, serialized_data, written, exitCode>>

\* line 462
FilterLocal ==
    /\ pc = "filter_local"
    /\ LET filtered == filter_items(overwritten_items, ignoreFile, "local")
       IN  IF filtered.err # "none"
           THEN pc' = "raised" /\ UNCHANGED overwritten_items
           ELSE overwritten_items' = filtered.val /\ pc' = "save"
    /\ UNCHANGED <<media_type, page, ignoreFile, overwriteFile, row_errors, data,
                   remote_items, final_data, serialized_data, written, exitCode>>

\* lines 465-468: concatenation, then save_media_data writes the sorted list
SaveMediaData ==
    /\ pc = "save"
    /\ final_data' = overwritten_items \o remote_items
    /\ serialized_data' = Serialize(SortedByTitle(final_data', <<>>))
    /\ written' = written \cup {media_type}
    /\ pc' = "saved"
    /\ UNCHANGED <<media_type, page, ignoreFile, overwriteFile, row_errors, data,
                   overwritten_items, remote_items, exitCode>>

\* _process_media_type returns to the loop of run
ReturnToLoop ==
    /\ pc = "saved"
    /\ NoFrame
    /\ pc' = "loop"
    /\ UNCHANGED <<media_type, written, exitCode>>

\* lines 483-486 and 503: both kinds done, the timestamp is written, exit(0)
Finish ==
    /\ pc = "loop"
    /\ media_type = "shows"
    /\ written' = written \cup {"updated.txt"}
    /\ exitCode' = 0
    /\ pc' = "exit"
    /\ UNCHANGED <<media_type, Frame>>

\* lines 470-472, 488-490 and 499-501: the exception is logged and raised again
\* by _process_media_type and by run, and main exits with 1
Abort ==
    /\ pc = "raised"
    /\ exitCode' = 1
    /\ pc' = "exit"
    /\ UNCHANGED <<media_type, written, Frame>>

----------------------------------------------------------------------------
InitSlug ==
    /\ slugPc = "call"
    /\ slugTitle \in SeqsUpTo(SlugChars, MaxTitleLen)
    /\ slugResult = NoneVal
    /\ char_maps \in CharMapChoices
    /\ FltIdle /\ MrgIdle /\ RunIdle

NextSlug == SlugCall /\ UNCHANGED <<fltVars, mrgVars, runVars>>

SpecSlug == InitSlug /\ [][NextSlug]_vars

InitFilter ==
    /\ fltPc = "call"
    /\ \E kind \in Kinds : fltData \in SeqsUpTo(FilterRecords(kind), MaxItems)
    /\ fltRules \in {MissingFile, InvalidFile}
                    \cup {JsonFile(r) : r \in SeqsUpTo(RuleChoices, MaxRules)}
    /\ fltSource \in Sources
    /\ fltResult = Ok(<<>>)
    /\ SlugIdle /\ MrgIdle /\ RunIdle

NextFilter == FilterCall /\ UNCHANGED <<slugVars, mrgVars, runVars>>

SpecFilter == InitFilter /\ [][NextFilter]_vars

InitMerge ==
    /\ mrgPc = "call"
    /\ mrgCandidates \in SeqsUpTo(MergeCandidates, MaxItems)
    /\ mrgOverwrite \in {MissingFile}
                        \cup {JsonFile(o) : o \in SeqsUpTo(MergeOverrides, MaxItems)}
    /\ mrgOnce = <<>> /\ mrgTwice = <<>>
    /\ SlugIdle /\ FltIdle /\ RunIdle

NextMerge ==
    \/ MergeOnce /\ UNCHANGED <<slugVars, fltVars, runVars>>
    \/ MergeTwice /\ UNCHANGED <<slugVars, fltVars, runVars>>

SpecMerge == InitMerge /\ [][NextMerge]_vars

Init ==
    /\ pc = "loop" /\ media_type = "none" /\ page = <<>>
    /\ ignoreFile = MissingFile /\ overwriteFile = MissingFile /\ row_errors = <<>>
    /\ data = <<>> /\ overwritten_items = <<>> /\ remote_items = <<>>
    /\ final_data = <<>> /\ serialized_data = <<>> /\ written = {} /\ exitCode = -1
    /\ SlugIdle /\ FltIdle /\ MrgIdle

Next ==
    \/ EnterMediaType /\ UNCHANGED <<slugVars, fltVars, mrgVars>>
    \/ ParseMedia /\ UNCHANGED <<slugVars, fltVars, mrgVars>>
    \/ FilterRemote /\ UNCHANGED <<slugVars, fltVars, mrgVars>>
    \/ ApplyOverwrites /\ UNCHANGED <<slugVars, fltVars, mrgVars>>
    \/ Partition /\ UNCHANGED <<slugVars, fltVars, mrgVars>>
    \/ FilterAll /\ UNCHANGED <<slugVars, fltVars, mrgVars>>
    \/ FilterLocal /\ UNCHANGED <<slugVars, fltVars, mrgVars>>
    \/ SaveMediaData /\ UNCHANGED <<slugVars, fltVars, mrgVars>>
    \/ ReturnToLoop /\ UNCHANGED <<slugVars, fltVars, mrgVars>>
    \/ Finish /\ UNCHANGED <<slugVars, fltVars, mrgVars>>
    \/ Abort /\ UNCHANGED <<slugVars, fltVars, mrgVars>>

Spec == Init /\ [][Next]_vars

----------------------------------------------------------------------------
\* Properties.

IsPrefixDash(s) == s # <<>> /\ Head(s) = "-"
IsSuffixDash(s) == s # <<>> /\ s[Len(s)] = "-"
HasDoubleDash(s) == \E i \in 1..(Len(s) - 1) : s[i] = "-" /\ s[i + 1] = "-"
AllDigits(s) == s # <<>> /\ \A i \in DOMAIN s : s[i] \in Digits

\* C9: for every title that does not consist solely of digits, the slug that
\* slugify returns has no leading dash, no trailing dash and no two consecutive
\* dashes (None, returned for the empty title and for digits followed by a
\* newline, holds no dash at all).
C9_SlugDashes ==
    (slugPc = "returned" /\ ~AllDigits(slugTitle) /\ ~slugResult.isNone) =>
        /\ ~IsPrefixDash(slugResult.val)
        /\ ~IsSuffixDash(slugResult.val)
        /\ ~HasDoubleDash(slugResult.val)

\* a title whose punctuation, separators and substituted character would all
\* leave dashes behind, slugified to a dash-free-at-the-ends slug
C9_Witness ==
    /\ slugPc = "returned"
    /\ slugTitle = <<"_", "A", "é">>
    /\ char_maps["é"] = <<"e", "!">>
    /\ slugResult = Some(<<"a", "e">>)

Applicable(rule, source) == rule.source = "all" \/ rule.source = source

Fires(rule, item) ==
    \/ /\ rule.type \in {"AND", "ALL"}
       /\ Len(rule.conditions) > 0
       /\ \A i \in DOMAIN rule.conditions : condition_matches(item, rule.conditions[i])
    \/ /\ rule.type \in {"OR", "ANY"}
       /\ \E i \in DOMAIN rule.conditions : condition_matches(item, rule.conditions[i])

Removed(item, rules, source) ==
    \E i \in DOMAIN rules : Applicable(rules[i], source) /\ Fires(rules[i], item)

Survivors(items, rules, source) ==
    SelectSeq(items, LAMBDA item : ~Removed(item, rules, source))

\* C4: filter_items removes a record iff at least one rule applicable in the
\* phase fires on it (AND/ALL: conditions non-empty and all match; OR/ANY: some
\* condition matches), so the result is the input restricted to the records on
\* which no applicable rule fires, in their original order; if every applicable
\* rule has an empty condition list nothing is removed.
C4_FilterRemovesIffRuleFires ==
    (fltPc = "returned" /\ fltRules.state # "invalid") =>
        LET rules == IF fltRules.state = "ok" THEN fltRules.content ELSE <<>>
        IN  /\ fltResult.err = "none"
            /\ fltResult.val = Survivors(fltData, rules, fltSource)
            /\ (\A i \in DOMAIN rules :
                    Applicable(rules[i], fltSource) => rules[i].conditions = <<>>)
               => fltResult.val = fltData

\* a record removed by a firing rule while an applicable AND rule with no
\* conditions is present, and a survivor kept
C4_Witness ==
    /\ fltPc = "returned" /\ fltRules.state = "ok"
    /\ Len(fltData) = 2 /\ Len(fltResult.val) = 1
    /\ fltResult.val[1] = fltData[2]
    /\ \E i \in DOMAIN fltRules.content :
          /\ Applicable(fltRules.content[i], fltSource)
          /\ fltRules.content[i].type = "AND"
          /\ fltRules.content[i].conditions = <<>>

\* C2: apply_overwrites is idempotent: applied to its own result with the same
\* overrides it returns the same sequence of records.
C2_MergeIdempotent ==
    mrgPc = "twice" => mrgTwice = mrgOnce

Overrides(file) == IF file.state = "ok" THEN file.content ELSE <<>>

IsFirstWithId(items, i) == \A j \in 1..(i - 1) : items[j].mal_id # items[i].mal_id

LastWithId(items, mal_id) ==
    items[CHOOSE i \in DOMAIN items :
            /\ items[i].mal_id = mal_id
            /\ \A j \in (i + 1)..Len(items) : items[j].mal_id # mal_id]

\* C5: the result of apply_overwrites is the candidate list, position by
\* position, followed by the overrides whose mal_id no candidate has, in
\* override-list order; a candidate whose mal_id is in no override is unchanged;
\* at the position of the (first) candidate carrying an overridden mal_id stands
\* an override record with that mal_id, whole (the last one in the override
\* list), and no other position changes.
C5_MergeShape ==
    mrgPc \in {"once", "twice"} =>
        LET c == mrgCandidates
            o == Overrides(mrgOverwrite)
            appended == SelectSeq(o, LAMBDA x : x.mal_id \notin MalIds(c))
        IN  /\ Len(mrgOnce) = Len(c) + Len(appended)
            /\ SubSeq(mrgOnce, Len(c) + 1, Len(mrgOnce)) = appended
            /\ \A i \in DOMAIN c :
                  IF c[i].mal_id \notin MalIds(o) THEN mrgOnce[i] = c[i]
                  ELSE IF IsFirstWithId(c, i)
                       THEN mrgOnce[i] = LastWithId(o, c[i].mal_id)
                       ELSE mrgOnce[i] = c[i]

\* one candidate replaced in place, one passed through, one override appended
C5_Witness ==
    /\ mrgPc = "once"
    /\ Len(mrgCandidates) = 2 /\ Len(mrgOnce) = 3
    /\ mrgOnce[1] # mrgCandidates[1] /\ mrgOnce[1].mal_id = mrgCandidates[1].mal_id
    /\ mrgOnce[2] = mrgCandidates[2]
    /\ mrgOnce[3].mal_id \notin MalIds(mrgCandidates)

\* the records load_overwrite_data gives for the kind being processed
OverwriteItems ==
    LET loaded == load_overwrite_data(overwriteFile, media_type)
    IN  IF loaded.err = "none" THEN loaded.val ELSE <<>>

IgnoreRules ==
    LET loaded == load_ignore_rules(ignoreFile)
    IN  IF loaded.err = "none" THEN loaded.val ELSE <<>>

\* C1: once the merged list has been partitioned, every record of the
\* overwritten partition is, field for field, a record of the override input.
C1_OverwrittenFromOverrides ==
    pc = "filter_all" =>
        \A i \in DOMAIN overwritten_items : overwritten_items[i] \in Range(OverwriteItems)

\* C3: when the run ends on a fatal error of one media kind, no output file
\* was written for that kind and the output of the other kind was written.
C3_FailureAbortsOnlyThatKind ==
    (pc = "exit" /\ exitCode = 1) =>
        /\ media_type \notin written
        /\ (Kinds \ {media_type}) \subseteq written

\* C6: a record-invariant violation at construction (the ValueError of
\* __post_init__) is never among the row errors parse_media catches and logs:
\* it aborts the kind instead.
C6_ViolationIsFatal ==
    \A i \in DOMAIN row_errors : row_errors[i] # "ValueError_post_init"

SeasonRecord(row, k) ==
    parse_season(row.seasons[k], ParseInt(Last(row.trakt.val.href)).val, row.trakt.val.text)

RowHeadOk(row) ==
    /\ row.cells >= 2
    /\ ~row.trakt.isNone
    /\ ParseInt(Last(row.trakt.val.href)).err = "none"

\* C7: every season fragment of a show row that parses on its own has its
\* record in the extractor's output, whatever happens to the other fragments
\* of the row.
C7_FragmentsIndependent ==
    (pc = "filter_remote" /\ media_type = "shows") =>
        \A r \in DOMAIN page.rows :
            RowHeadOk(page.rows[r]) =>
                \A k \in DOMAIN page.rows[r].seasons :
                    LET one == SeasonRecord(page.rows[r], k)
                    IN  (one.err = "none" /\ one.val # <<>>) => one.val[1] \in Range(data)

SameKey(a, b) == Lower(a.title) = Lower(b.title)

\* C8: the sequence written for a kind holds the records of overwritten_items
\* followed by remote_items, in non-decreasing order of lower-cased title;
\* records of equal lower-cased title keep their order of the concatenation,
\* so an overwritten record comes before a remote one of the same title.
C8_SavedSortedStable ==
    pc = "saved" =>
        LET out == serialized_data
            cat == overwritten_items \o remote_items
        IN  /\ Len(out) = Len(cat)
            /\ \A i \in 1..(Len(out) - 1) :
                  ~StrLess(Lower(out[i + 1].title), Lower(out[i].title))
            /\ \A i \in DOMAIN cat :
                  SelectSeq(out, LAMBDA x : SameKey(x, cat[i]))
                      = SelectSeq(cat, LAMBDA x : SameKey(x, cat[i]))
            /\ \A i, j \in DOMAIN out :
                  (i < j /\ SameKey(out[i], out[j]))
                      => ~(/\ out[i].mal_id \notin MalIds(OverwriteItems)
                           /\ out[j].mal_id \in MalIds(OverwriteItems))

\* an overwritten "a" written before the remote "A" it ties with (by code
\* point "A" would come first), and a record of a greater title after them
C8_Witness ==
    /\ pc = "saved"
    /\ Len(serialized_data) = 3
    /\ serialized_data[1].title = <<"a">>
    /\ serialized_data[1].mal_id \in MalIds(OverwriteItems)
    /\ serialized_data[2].title = <<"A">>
    /\ serialized_data[2].mal_id \notin MalIds(OverwriteItems)
    /\ serialized_data[3].title = <<"B">>

UniqueIds(items) ==
    \A i, j \in DOMAIN items : items[i].mal_id = items[j].mal_id => i = j

LocalRuleFires(item) ==
    \E i \in DOMAIN IgnoreRules :
        /\ IgnoreRules[i].source \in {"local", "all"}
        /\ Fires(IgnoreRules[i], item)

\* C10: when no two override records share a mal_id, every override record on
\* which no rule of scope "local" or "all" fires is in the sequence written
\* for the kind.
C10_OverridesPersisted ==
    (pc = "saved" /\ UniqueIds(OverwriteItems)) =>
        \A i \in DOMAIN OverwriteItems :
            ~LocalRuleFires(OverwriteItems[i])
                => OverwriteItems[i] \in Range(serialized_data)

\* a rule of scope "remote" removed the scraped record with mal_id 1 and
\* matches the override record with that mal_id, which is written all the same
C10_Witness ==
    /\ pc = "saved"
    /\ UniqueIds(OverwriteItems)
    /\ \E r \in DOMAIN IgnoreRules :
          /\ IgnoreRules[r].source = "remote"
          /\ \E i \in DOMAIN OverwriteItems :
                /\ Fires(IgnoreRules[r], OverwriteItems[i])
                /\ OverwriteItems[i] \in Range(serialized_data)
                /\ media_type = "movies"
                /\ \E k \in DOMAIN page.rows :
                      LET scraped == parse_movie_row(page.rows[k])
                      IN  /\ scraped.err = "none"
                          /\ scraped.val.mal_id = OverwriteItems[i].mal_id
                          /\ Fires(IgnoreRules[r], scraped.val)

====
